---- MODULE Spec2Model ----
(***************************************************************************)
(* Model of the input-cursor InputManager                                  *)
(* (pkg/manager/input/input-cursor/manager.go): one-time initialisation,   *)
(* run-mode Init with its registry-cleanup task, Create, and the per-key   *)
(* lock / release helpers used by the source tasks of a managed input.     *)
(*                                                                         *)
(* Durations are counted in sweep-interval ticks of the model clock.       *)
(***************************************************************************)
EXTENDS Integers, Sequences, FiniteSets, TLC

\* ------------------------------------------------------------------ bounds
MaxInitCalls == 2      \* calls of InputManager.Init explored
MaxInputs == 2         \* calls of InputManager.Create explored
MaxOps == 4            \* Init calls, Create calls and source tasks started in one run
MaxIdle == 2           \* idle ticks counted per registry entry

\* ------------------------------------------------------- program constants
ThirtyMinutes == 2     \* 30 * time.Minute, in ticks
Type == "t"            \* InputManager.Type
SourceNames == <<"a", "b">>
MaxSources == Len(SourceNames)
IDs == {"", "x"}
Modes == {"ModeRun", "ModeOther"}

InitCalls == 1 .. MaxInitCalls
Inputs == 1 .. MaxInputs
Callers == ({"Init"} \X InitCalls) \cup ({"Create"} \X Inputs)
Tasks == Inputs \X (1 .. MaxSources)

VARIABLES
    DefaultCleanTimeout, \* cim.DefaultCleanTimeout
    initOnce,            \* cim.initOnce: "new", "running" (f executing), "done"
    initErr,             \* cim.initErr
    store,               \* cim.store and its handle: "nil", "open", "closed"
    storeRef,            \* the store's reference count
    opens,               \* number of openStore executions so far
    pc,                  \* position of every Init / Create call
    ret,                 \* what the call returned
    initRet,             \* what cim.init() returned to the call
    initMode,            \* per Init call: the mode it was called with
    scope,               \* per Init call: its group, "active" or "done"
    cleaner,             \* per Init call: position of the task given to group.Go
    inputs,              \* per Create call: the managedInput it returned
    configured,          \* per Create call: what Configure handed back
    canceled,            \* per input: ctx.Cancelation has fired
    tpc,                 \* position of every source task
    table,               \* the registry: key -> resource
    durable              \* keys present in the durable store

mgr == <<DefaultCleanTimeout, initOnce, initErr, store, storeRef, opens>>
calls == <<pc, ret, initRet, initMode>>
bg == <<scope, cleaner>>
run == <<inputs, configured, canceled, tpc>>
reg == <<table, durable>>
vars == <<mgr, calls, bg, run, reg>>

NotConfigured == [called |-> FALSE, sources |-> <<>>, hasRunner |-> FALSE]

NoInput == [created |-> FALSE, ID |-> "", sources |-> <<>>, cleanTimeout |-> 0]

Init ==
    /\ DefaultCleanTimeout = 0
    /\ initOnce = "new"
    /\ initErr = "nil"
    /\ store = "nil"
    /\ storeRef = 0
    /\ opens = 0
    /\ pc = [c \in Callers |-> "idle"]
    /\ ret = [c \in Callers |-> "none"]
    /\ initRet = [c \in Callers |-> "none"]
    /\ initMode = [i \in InitCalls |-> "none"]
    /\ scope = [i \in InitCalls |-> "active"]
    /\ cleaner = [i \in InitCalls |-> "none"]
    /\ inputs = [m \in Inputs |-> NoInput]
    /\ configured = [m \in Inputs |-> NotConfigured]
    /\ canceled = [m \in Inputs |-> FALSE]
    /\ tpc = [t \in Tasks |-> "idle"]
    /\ table = <<>>
    /\ durable = {}

\* ------------------------------------------------------------ the store
\* store.Retain / store.Release: the count of holders of the open handle;
\* the handle is closed when a release brings the count to zero.
StoreRetain(n) == n + 1

StoreRelease(n) == n - 1

HandleAfterRelease(h, n) == IF StoreRelease(n) = 0 THEN "closed" ELSE h

\* openStore: refcount 1 for the manager itself, handle open.
OpenStoreRef == 1

\* --------------------------------------- what the environment may answer
\* group.Go accepts the task or not.
GoResults == [started : BOOLEAN]

\* What Configure may hand back: no source or all of them, a runner or nil.
SourceLists == {<<>>, SourceNames}

\* config.Unpack and Configure: cleanTimeout 0 stands for a configuration
\* without clean_timeout. A failing Unpack or Configure is listed once.
FailedConfig(unpackOK, cfgOK) ==
    [unpackOK |-> unpackOK, cfgOK |-> cfgOK, id |-> "", cleanTimeout |-> 0,
     sources |-> <<>>, hasRunner |-> FALSE]

Configs ==
    {FailedConfig(FALSE, TRUE), FailedConfig(TRUE, FALSE)}
    \cup [unpackOK : {TRUE}, cfgOK : {TRUE}, id : IDs, cleanTimeout : {0, 1},
          sources : SourceLists, hasRunner : BOOLEAN]

\* The operations started so far; calls start in the order of their
\* numbers (they are interchangeable).
Started == Cardinality({c \in Callers : pc[c] # "idle"})
           + Cardinality({t \in Tasks : tpc[t] # "idle"})

InOrder(c) == IF c[2] = 1 THEN TRUE ELSE pc[<<c[1], c[2] - 1>>] # "idle"

\* --------------------------------------------------- InputManager.Init
\* Init after init() returned nil, the store having handle h and count n:
\* store.Retain(); group.Go; if that failed store.Release(), cim.shutdown().
InitStart(i, h, n, go) ==
    LET c == <<"Init", i>>
        n1 == StoreRetain(n)
        n2 == StoreRelease(n1)
    IN
    IF go.started
    THEN /\ storeRef' = n1
         /\ store' = h
         /\ cleaner' = [cleaner EXCEPT ![i] = "run"]
         /\ ret' = [ret EXCEPT ![c] = "nil"]
         /\ UNCHANGED <<inputs, configured>>
    ELSE /\ storeRef' = StoreRelease(n2)
         /\ store' = HandleAfterRelease(HandleAfterRelease(h, n1), n2)
         /\ ret' = [ret EXCEPT ![c] = "errStart"]
         /\ UNCHANGED <<cleaner, inputs, configured>>

\* ------------------------------------------------- InputManager.Create
\* (mutant) Create without the check for a nil runner
CreateResultNoRunnerCheck(sources, hasRunner) ==
    IF Len(sources) = 0 THEN "errNoSourceConfigured" ELSE "nil"

\* The checks of Create on what Configure returned.
CreateResult(sources, hasRunner) ==
    IF Len(sources) = 0 THEN "errNoSourceConfigured"
    ELSE IF ~hasRunner THEN "errNoInputRunner"
    ELSE "nil"

\* Create after init() returned nil (the store having handle h and count
\* n, which it leaves alone): config.Unpack, Configure, the two checks, the
\* managedInput.
Create(m, h, n, dct, cfg) ==
    LET c == <<"Create", m>>
        res == IF ~cfg.unpackOK THEN "errUnpack"
               ELSE IF ~cfg.cfgOK THEN "errConfigure"
               ELSE CreateResult(cfg.sources, cfg.hasRunner)
    IN
    /\ ret' = [ret EXCEPT ![c] = res]
    /\ configured' = IF cfg.unpackOK /\ cfg.cfgOK
                     THEN [configured EXCEPT ![m] =
                              [called |-> TRUE, sources |-> cfg.sources,
                               hasRunner |-> cfg.hasRunner]]
                     ELSE configured
    /\ inputs' = IF res = "nil"
                 THEN [inputs EXCEPT ![m] =
                          [created |-> TRUE, ID |-> cfg.id, sources |-> cfg.sources,
                           cleanTimeout |-> IF cfg.cleanTimeout = 0
                                            THEN dct
                                            ELSE cfg.cleanTimeout]]
                 ELSE inputs
    /\ store' = h
    /\ storeRef' = n
    /\ UNCHANGED cleaner

\* ------------------------------------------------- InputManager.init()
\* The caller of init() goes on with what it returned: Init and Create
\* both return the error at once; x is what the environment answers.
AfterInit(c, err, h, n, dct, x) ==
    /\ pc' = [pc EXCEPT ![c] = "returned"]
    /\ initRet' = [initRet EXCEPT ![c] = err]
    /\ IF err # "nil"
       THEN /\ ret' = [ret EXCEPT ![c] = err]
            /\ store' = h
            /\ storeRef' = n
            /\ UNCHANGED <<cleaner, inputs, configured>>
       ELSE IF c[1] = "Init"
       THEN InitStart(c[2], h, n, x)
       ELSE Create(c[2], h, n, dct, x)

Answers(c) == IF c[1] = "Init" THEN GoResults ELSE Configs

\* (mutant) an init() without the sync.Once: every caller runs f
OnceDoAlways(c, x) ==
    /\ initOnce' = "running"
    /\ pc' = [pc EXCEPT ![c] = "opening"]
    /\ UNCHANGED <<ret, initRet, store, storeRef, cleaner, inputs, configured>>

\* cim.initOnce.Do(f) as seen by a caller arriving now: the first caller
\* runs f, a caller arriving meanwhile blocks, a later one returns at once.
OnceDo(c, x) ==
    IF initOnce = "new"
    THEN /\ initOnce' = "running"
         /\ pc' = [pc EXCEPT ![c] = "opening"]
         /\ UNCHANGED <<ret, initRet, store, storeRef, cleaner, inputs, configured>>
    ELSE IF initOnce = "running"
    THEN /\ pc' = [pc EXCEPT ![c] = "blocked"]
         /\ UNCHANGED <<initOnce, ret, initRet, store, storeRef, cleaner, inputs, configured>>
    ELSE /\ AfterInit(c, initErr, store, storeRef, DefaultCleanTimeout, x)
         /\ UNCHANGED initOnce

\* The function given to initOnce.Do, run by the first caller; accessUp
\* tells whether openStore reaches the durable backend.
InitFunc(c) ==
    LET dct == IF DefaultCleanTimeout <= 0 THEN ThirtyMinutes ELSE DefaultCleanTimeout IN
    /\ pc[c] = "opening"
    /\ \E accessUp \in BOOLEAN, x \in Answers(c) :
          LET err == IF accessUp THEN "nil" ELSE "errAccess" IN
          /\ initErr' = err
          /\ IF accessUp
             THEN AfterInit(c, err, "open", OpenStoreRef, dct, x)
             ELSE AfterInit(c, err, store, storeRef, dct, x)
    /\ DefaultCleanTimeout' = dct
    /\ opens' = opens + 1
    /\ initOnce' = "done"
    /\ UNCHANGED <<initMode, scope, canceled, tpc, reg>>

\* A caller blocked in initOnce.Do returns once f has run.
OnceWake(c) ==
    /\ pc[c] = "blocked"
    /\ initOnce = "done"
    /\ \E x \in Answers(c) :
          AfterInit(c, initErr, store, storeRef, DefaultCleanTimeout, x)
    /\ UNCHANGED <<DefaultCleanTimeout, initOnce, initErr, opens>>
    /\ UNCHANGED <<initMode, scope, canceled, tpc, reg>>

\* (mutant) an Init that goes on to init() whatever the mode
InitCallAnyMode(i, mode) ==
    LET c == <<"Init", i>> IN
    /\ pc[c] = "idle"
    /\ Started < MaxOps
    /\ InOrder(c)
    /\ initMode' = [initMode EXCEPT ![i] = mode]
    /\ \E go \in GoResults : OnceDo(c, go)
    /\ UNCHANGED <<DefaultCleanTimeout, initErr, opens>>
    /\ UNCHANGED <<scope, canceled, tpc, reg>>

\* A call of Init(group, mode).
InitCall(i, mode) ==
    LET c == <<"Init", i>> IN
    /\ pc[c] = "idle"
    /\ Started < MaxOps
    /\ InOrder(c)
    /\ initMode' = [initMode EXCEPT ![i] = mode]
    /\ IF mode # "ModeRun"
       THEN /\ pc' = [pc EXCEPT ![c] = "returned"]
            /\ ret' = [ret EXCEPT ![c] = "nil"]
            /\ UNCHANGED <<initOnce, initRet, store, storeRef, cleaner, inputs, configured>>
       ELSE \E go \in GoResults : OnceDo(c, go)
    /\ UNCHANGED <<DefaultCleanTimeout, initErr, opens>>
    /\ UNCHANGED <<scope, canceled, tpc, reg>>

\* A call of Create(config).
CreateCall(m) ==
    LET c == <<"Create", m>> IN
    /\ pc[c] = "idle"
    /\ Started < MaxOps
    /\ InOrder(c)
    /\ \E cfg \in Configs : OnceDo(c, cfg)
    /\ UNCHANGED <<DefaultCleanTimeout, initErr, opens>>
    /\ UNCHANGED <<initMode, scope, canceled, tpc, reg>>

\* The cancellation scope (group) handed to Init ends.
ScopeEnd(i) ==
    /\ cleaner[i] = "run"
    /\ scope[i] = "active"
    /\ scope' = [scope EXCEPT ![i] = "done"]
    /\ UNCHANGED <<mgr, calls, cleaner, run, reg>>

\* ------------------------------------------------------------ resources
\* (mutant) a key that leaves the configured id out
KeyNoID(ns, id, name) == ns \o "-" \o name

\* The persisted key of a source: <Type>-[<ID>]-<Source Name>, the id
\* segment only for a non-empty id.
Key(ns, id, name) ==
    IF id = "" THEN ns \o "-" \o name ELSE ns \o "-[" \o id \o "]-" \o name

createSourceID(t) == Key(Type, inputs[t[1]].ID, inputs[t[1]].sources[t[2]])

NewResource == [pending |-> 0, lock |-> 0, idle |-> 0, ttl |-> 0, cursor |-> 0]

\* store.Get(key): find or create the entry, and retain it.
Get(tbl, k) ==
    LET r == IF k \in DOMAIN tbl THEN tbl[k] ELSE NewResource IN
    [x \in DOMAIN tbl \cup {k} |->
        IF x = k THEN [r EXCEPT !.pending = r.pending + 1, !.idle = 0] ELSE tbl[x]]

\* resource.Release(): one reference less; the entry stays in the table.
Release(tbl, k) ==
    [tbl EXCEPT ![k] = [@ EXCEPT !.pending = @ - 1, !.idle = 0]]

\* (mutant) a TryLock that never reports contention
TryLockAlways(r) == TRUE

\* resource.lock.TryLock(): succeeds iff the lock is free.
TryLock(r) == r.lock = 0

\* resource.lock.Unlock()
Unlock(tbl, k) == [tbl EXCEPT ![k] = [@ EXCEPT !.lock = 0]]

\* The cursor values an input writes; 0 is the empty cursor of a new entry.
Cursors == {1}

\* The input replaces the cursor of the resource it holds.
WriteCursor(tbl, k, v) == [tbl EXCEPT ![k] = [@ EXCEPT !.cursor = v]]

\* The lock taken, and store.UpdateTTL by the task that took it.
Locked(tbl, k, ttl) ==
    [tbl EXCEPT ![k] = [@ EXCEPT !.lock = 1, !.ttl = ttl, !.idle = 0]]

\* ---------------------------------------- managedInput: one source task
Live(t) == inputs[t[1]].created /\ t[2] <= Len(inputs[t[1]].sources)

\* The state written through to the durable store by store.UpdateTTL.
Persist(k) == IF store = "open" THEN durable \cup {k} ELSE durable

\* (mutant) cim.lock looking the resource up without retaining it
TaskGetNoRetain(t) ==
    LET k == createSourceID(t) IN
    /\ Live(t)
    /\ tpc[t] = "idle"
    /\ Started < MaxOps
    /\ IF t[2] = 1 THEN TRUE ELSE tpc[<<t[1], t[2] - 1>>] # "idle"
    /\ table' = [x \in DOMAIN table \cup {k} |->
                    IF x \in DOMAIN table THEN table[x] ELSE NewResource]
    /\ tpc' = [tpc EXCEPT ![t] = "got"]
    /\ UNCHANGED <<mgr, calls, bg, inputs, configured, canceled, durable>>

\* cim.lock, first statement: resource := cim.store.Get(key)
TaskGet(t) ==
    /\ Live(t)
    /\ tpc[t] = "idle"
    /\ IF t[2] = 1 THEN TRUE ELSE tpc[<<t[1], t[2] - 1>>] # "idle"
    /\ Started < MaxOps
    /\ table' = Get(table, createSourceID(t))
    /\ tpc' = [tpc EXCEPT ![t] = "got"]
    /\ UNCHANGED <<mgr, calls, bg, inputs, configured, canceled, durable>>

\* lockResource: TryLock; on success lock returns the resource.
TaskTryLock(t) ==
    LET k == createSourceID(t) IN
    /\ tpc[t] = "got"
    /\ IF TryLock(table[k])
       THEN /\ table' = Locked(table, k, inputs[t[1]].cleanTimeout)
            /\ durable' = Persist(k)
            /\ tpc' = [tpc EXCEPT ![t] = "holding"]
       ELSE /\ tpc' = [tpc EXCEPT ![t] = "waiting"]
            /\ UNCHANGED reg
    /\ UNCHANGED <<mgr, calls, bg, inputs, configured, canceled>>

\* lockResource: LockContext obtains the lock.
TaskLockContext(t) ==
    LET k == createSourceID(t) IN
    /\ tpc[t] = "waiting"
    /\ table[k].lock = 0
    /\ table' = Locked(table, k, inputs[t[1]].cleanTimeout)
    /\ durable' = Persist(k)
    /\ tpc' = [tpc EXCEPT ![t] = "holding"]
    /\ UNCHANGED <<mgr, calls, bg, inputs, configured, canceled>>

\* (mutant) a LockContext that does not listen to the canceler
TaskLockCanceledNever(t) ==
    /\ FALSE
    /\ tpc[t] = "waiting"
    /\ tpc' = [tpc EXCEPT ![t] = "errRelease"]
    /\ UNCHANGED <<mgr, calls, bg, inputs, configured, canceled, reg>>

\* (mutant) a lockResource that releases the resource itself on cancellation
TaskLockCanceledRelease(t) ==
    /\ tpc[t] = "waiting"
    /\ canceled[t[1]]
    /\ table' = Release(table, createSourceID(t))
    /\ tpc' = [tpc EXCEPT ![t] = "errRelease"]
    /\ UNCHANGED <<mgr, calls, bg, inputs, configured, canceled, durable>>

\* lockResource: LockContext returns the canceler's error.
TaskLockCanceled(t) ==
    /\ tpc[t] = "waiting"
    /\ canceled[t[1]]
    /\ tpc' = [tpc EXCEPT ![t] = "errRelease"]
    /\ UNCHANGED <<mgr, calls, bg, inputs, configured, canceled, reg>>

\* (mutant) cim.lock returning the error without resource.Release()
TaskLockFailedLeak(t) ==
    /\ tpc[t] = "errRelease"
    /\ tpc' = [tpc EXCEPT ![t] = "failed"]
    /\ UNCHANGED <<mgr, calls, bg, inputs, configured, canceled, reg>>

\* cim.lock on error: resource.Release(); return nil, err
TaskLockFailed(t) ==
    /\ tpc[t] = "errRelease"
    /\ table' = Release(table, createSourceID(t))
    /\ tpc' = [tpc EXCEPT ![t] = "failed"]
    /\ UNCHANGED <<mgr, calls, bg, inputs, configured, canceled, durable>>

\* (mutant) a releaseResource that drops the reference before it unlocks
TaskUnlockReleaseFirst(t) ==
    /\ tpc[t] = "holding"
    /\ table' = Release(table, createSourceID(t))
    /\ tpc' = [tpc EXCEPT ![t] = "unlocked"]
    /\ UNCHANGED <<mgr, calls, bg, inputs, configured, canceled, durable>>

\* The input's Run returns (normally, with an error, or on cancellation),
\* having stored the cursor it reached; the deferred releaseResource starts:
\* resource.lock.Unlock()
TaskUnlock(t) ==
    /\ tpc[t] = "holding"
    /\ \E v \in Cursors :
          table' = Unlock(WriteCursor(table, createSourceID(t), v), createSourceID(t))
    /\ tpc' = [tpc EXCEPT ![t] = "unlocked"]
    /\ UNCHANGED <<mgr, calls, bg, inputs, configured, canceled, durable>>

\* (mutant) releaseResource deleting the entry with its last reference
TaskReleasePrune(t) ==
    LET k == createSourceID(t) IN
    /\ tpc[t] = "unlocked"
    /\ table' = IF table[k].pending = 1
                THEN [x \in DOMAIN table \ {k} |-> table[x]]
                ELSE Release(table, k)
    /\ tpc' = [tpc EXCEPT ![t] = "done"]
    /\ UNCHANGED <<mgr, calls, bg, inputs, configured, canceled, durable>>

\* (mutant) releaseResource without resource.Release()
TaskReleaseLeak(t) ==
    /\ tpc[t] = "unlocked"
    /\ tpc' = [tpc EXCEPT ![t] = "done"]
    /\ UNCHANGED <<mgr, calls, bg, inputs, configured, canceled, reg>>

\* releaseResource: resource.Release()
TaskRelease(t) ==
    /\ tpc[t] = "unlocked"
    /\ table' = Release(table, createSourceID(t))
    /\ tpc' = [tpc EXCEPT ![t] = "done"]
    /\ UNCHANGED <<mgr, calls, bg, inputs, configured, canceled, durable>>

\* The context given to the input's Run is cancelled.
Cancel(m) ==
    /\ inputs[m].created
    /\ ~canceled[m]
    /\ \E t \in Tasks : t[1] = m /\ Live(t) /\ tpc[t] \notin {"failed", "done"}
    /\ canceled' = [canceled EXCEPT ![m] = TRUE]
    /\ UNCHANGED <<mgr, calls, bg, inputs, configured, tpc, reg>>

\* -------------------------------------------------------------- cleaner
\* An entry may be removed: nobody references it, it is not locked, and it
\* has been idle for its cleanup timeout.
Evictable(r) == r.pending = 0 /\ r.lock = 0 /\ r.idle >= r.ttl

Stale(tbl) == {k \in DOMAIN tbl : Evictable(tbl[k])}

\* One pass of cleaner.run over the registry, under the registry's mutex:
\* the stale entries are removed from the durable store and the table; a
\* failing backend is logged and nothing is removed.
Sweep(i) ==
    LET gone == Stale(table) IN
    /\ cleaner[i] = "run"
    /\ gone # {}
    /\ \E accessUp \in BOOLEAN :
          IF store = "open" /\ accessUp
          THEN /\ table' = [k \in DOMAIN table \ gone |-> table[k]]
               /\ durable' = durable \ gone
          ELSE UNCHANGED reg
    /\ UNCHANGED <<mgr, calls, scope, cleaner, run>>

\* (mutant) a cleaner.run that gives up on a sweep it could not complete
CleanerReturnOnFailure(i) ==
    /\ cleaner[i] = "run"
    /\ scope[i] = "done" \/ Stale(table) # {}
    /\ cleaner' = [cleaner EXCEPT ![i] = "release"]
    /\ UNCHANGED <<mgr, calls, scope, run, reg>>

\* cleaner.run returns: its canceler is done.
CleanerReturn(i) ==
    /\ cleaner[i] = "run"
    /\ scope[i] = "done"
    /\ cleaner' = [cleaner EXCEPT ![i] = "release"]
    /\ UNCHANGED <<mgr, calls, scope, run, reg>>

\* The task's deferred store.Release()
CleanerRelease(i) ==
    /\ cleaner[i] = "release"
    /\ storeRef' = StoreRelease(storeRef)
    /\ store' = HandleAfterRelease(store, storeRef)
    /\ cleaner' = [cleaner EXCEPT ![i] = "shutdown"]
    /\ UNCHANGED <<DefaultCleanTimeout, initOnce, initErr, opens>>
    /\ UNCHANGED <<calls, scope, run, reg>>

\* The task's deferred cim.shutdown(): cim.store.Release()
CleanerShutdown(i) ==
    /\ cleaner[i] = "shutdown"
    /\ storeRef' = StoreRelease(storeRef)
    /\ store' = HandleAfterRelease(store, storeRef)
    /\ cleaner' = [cleaner EXCEPT ![i] = "done"]
    /\ UNCHANGED <<DefaultCleanTimeout, initOnce, initErr, opens>>
    /\ UNCHANGED <<calls, scope, run, reg>>

\* ---------------------------------------------------------- environment
\* One tick of the clock: every entry nobody uses has been idle one tick
\* longer (counted up to its cleanup timeout, and to MaxIdle at most).
Idles(r) == r.pending = 0 /\ r.idle < MaxIdle /\ r.idle < r.ttl

Tick ==
    /\ \E k \in DOMAIN table : Idles(table[k])
    /\ table' = [k \in DOMAIN table |->
                    [table[k] EXCEPT !.idle = IF Idles(table[k]) THEN @ + 1 ELSE @]]
    /\ UNCHANGED <<mgr, calls, bg, run, durable>>

Next ==
    \/ \E i \in InitCalls, mode \in Modes : InitCall(i, mode)
    \/ \E m \in Inputs : CreateCall(m)
    \/ \E c \in Callers : InitFunc(c)
    \/ \E c \in Callers : OnceWake(c)
    \/ \E i \in InitCalls : ScopeEnd(i)
    \/ \E t \in Tasks : TaskGet(t)
    \/ \E t \in Tasks : TaskTryLock(t)
    \/ \E t \in Tasks : TaskLockContext(t)
    \/ \E t \in Tasks : TaskLockCanceled(t)
    \/ \E t \in Tasks : TaskLockFailed(t)
    \/ \E t \in Tasks : TaskUnlock(t)
    \/ \E t \in Tasks : TaskRelease(t)
    \/ \E m \in Inputs : Cancel(m)
    \/ \E i \in InitCalls : Sweep(i)
    \/ \E i \in InitCalls : CleanerReturn(i)
    \/ \E i \in InitCalls : CleanerRelease(i)
    \/ \E i \in InitCalls : CleanerShutdown(i)
    \/ Tick

Spec == Init /\ [][Next]_vars

\* A step of some Cleaner task: its timer fires and it sweeps, its
\* cleaner.run returns, one of its deferred calls runs.
CleanerStep ==
    \E i \in InitCalls :
        Sweep(i) \/ CleanerReturn(i) \/ CleanerRelease(i) \/ CleanerShutdown(i)

\* A step of some cancelled waiter: LockContext returns the canceler's
\* error, lock goes on to its error path.
WaiterStep == \E t \in Tasks : TaskLockCanceled(t) \/ TaskLockFailed(t)

\* The scheduler does not starve the Cleaner tasks nor the cancelled
\* waiters (a sweep counts once the backend answers); each of these steps
\* can be taken finitely often only, so none is postponed for ever.
\* Nothing is assumed of the tasks that hold a lock, of the callers of Init
\* and Create, or of the scopes.
Fairness == WF_vars(CleanerStep) /\ WF_vars(WaiterStep)

LiveSpec == Spec /\ Fairness

\* ================================================================ claims
AllKeys == {Key(Type, id, SourceNames[n]) : id \in IDs, n \in 1 .. Len(SourceNames)}

\* The tasks inside lock() or between lock() and the end of releaseResource.
InUse == {"got", "waiting", "errRelease", "holding", "unlocked"}

Using(k) == {t \in Tasks : tpc[t] \in InUse /\ createSourceID(t) = k}

Holders(k) == {t \in Tasks : tpc[t] = "holding" /\ createSourceID(t) = k}

SameKey(t, u) ==
    tpc[t] # "idle" /\ tpc[u] # "idle" /\ createSourceID(t) = createSourceID(u)

\* C1: for every key, at most one task holds the lock obtained through
\* InputManager.lock, whichever managed inputs the tasks belong to.
MutualExclusion == \A k \in AllKeys : Cardinality(Holders(k)) <= 1

\* Two tasks of different inputs on one key, one holding, one kept waiting.
MutualExclusionWitness ==
    \E t \in Tasks, u \in Tasks :
        /\ t[1] # u[1]
        /\ SameKey(t, u)
        /\ tpc[t] = "holding"
        /\ tpc[u] = "waiting"

\* C2: a lock() call that ended with the cancellation error was cancelled,
\* holds neither the lock nor a reference: the count of its resource is the
\* number of the other calls still using it, and the lock belongs to the
\* task that holds it.
NoLeakOnCancel ==
    \A t \in Tasks :
        tpc[t] = "failed" =>
            LET k == createSourceID(t) IN
            /\ canceled[t[1]]
            /\ k \in DOMAIN table =>
                  /\ table[k].pending = Cardinality(Using(k))
                  /\ table[k].lock = Cardinality(Holders(k))

\* A cancelled waiter has returned while the holder still holds the lock,
\* with the one reference that is the holder's.
NoLeakOnCancelWitness ==
    \E t \in Tasks, u \in Tasks :
        /\ SameKey(t, u)
        /\ tpc[t] = "failed"
        /\ tpc[u] = "holding"
        /\ table[createSourceID(t)].pending = 1
        /\ table[createSourceID(t)].lock = 1

\* C3: no lock() call is granted the lock once its cancellation token has
\* fired, whether the key was contended or free.
NoAcquireAfterCancel ==
    [][\A t \in Tasks :
          (tpc[t] # "holding" /\ tpc'[t] = "holding") => ~canceled[t[1]]]_vars

Overdue(k) ==
    /\ \E i \in InitCalls : cleaner[i] = "run"
    /\ k \in DOMAIN table
    /\ table[k].pending = 0
    /\ table[k].lock = 0
    /\ table[k].idle >= table[k].ttl

EvictionLiveness == \A k \in AllKeys : []<>(~Overdue(k))

\* C6: the store is opened at most once, and every init() call returns the
\* same outcome: nil if the open succeeded, else the cached error.
IdempotentInit ==
    /\ opens <= 1
    /\ \A c \in Callers :
          initRet[c] # "none" =>
              /\ opens = 1
              /\ initRet[c] = initErr
              /\ initRet[c] = IF store = "nil" THEN "errAccess" ELSE "nil"

\* Two calls got the error of the one failed open.
IdempotentInitWitness ==
    \E c \in Callers, d \in Callers :
        /\ c # d
        /\ initRet[c] = "errAccess"
        /\ initRet[d] = "errAccess"
        /\ opens = 1

\* C7: Create fails with "no source configured" on an empty source list and
\* with "no input runner" on sources without a runner; then no managedInput
\* exists, none of its tasks runs, and Create itself never adds a resource.
CreateValidation ==
    /\ \A m \in Inputs :
          LET r == ret[<<"Create", m>>] IN
          /\ configured[m].called =>
                /\ Len(configured[m].sources) = 0 => r = "errNoSourceConfigured"
                /\ (Len(configured[m].sources) > 0 /\ ~configured[m].hasRunner)
                      => r = "errNoInputRunner"
          /\ r \in {"errNoSourceConfigured", "errNoInputRunner"} =>
                /\ ~inputs[m].created
                /\ \A t \in Tasks : t[1] = m => tpc[t] = "idle"
    /\ (\A t \in Tasks : tpc[t] = "idle") => table = <<>> /\ durable = {}

\* Both failures have happened, and the registry is empty.
CreateValidationWitness ==
    \E m \in Inputs, n \in Inputs :
        /\ ret[<<"Create", m>>] = "errNoSourceConfigured"
        /\ ret[<<"Create", n>>] = "errNoInputRunner"
        /\ Len(configured[n].sources) > 0
        /\ table = <<>>

\* C8: when a run-mode Init cannot start its task it returns the wrapped
\* error, no Cleaner runs, the store's count is zero and its handle closed.
StartFailureClosesStore ==
    [][\A i \in InitCalls :
          (ret[<<"Init", i>>] # "errStart" /\ ret'[<<"Init", i>>] = "errStart") =>
              /\ storeRef' = 0
              /\ store' = "closed"
              /\ \A j \in InitCalls : cleaner'[j] \in {"none", "done"}]_vars

\* C9: while a Cleaner runs the store's handle is open, and the handle is
\* closed only with the count at zero, the Cleaner having returned.
StoreHandleLifetime ==
    /\ \A i \in InitCalls : cleaner[i] = "run" => store = "open"
    /\ store = "closed" => storeRef = 0

\* C10: every task that obtained a resource through lock unlocks and
\* releases it exactly once: a resource no task is using is unlocked and has
\* reference count 0.
ExactlyOnceRelease ==
    \A k \in DOMAIN table :
        Using(k) = {} => table[k].pending = 0 /\ table[k].lock = 0

\* On one key a task has run to its end under a cancelled context and
\* another has given up waiting; the entry is unlocked and unreferenced.
ExactlyOnceReleaseWitness ==
    \E t \in Tasks, u \in Tasks :
        /\ SameKey(t, u)
        /\ tpc[t] = "done"
        /\ tpc[u] = "failed"
        /\ createSourceID(t) \in DOMAIN table
        /\ table[createSourceID(t)].pending = 0
        /\ table[createSourceID(t)].lock = 0
\* C11: an Init called with a mode other than ModeRun returns nil and
\* leaves the manager as it was: the store is not opened, its count is not
\* changed, no Cleaner is started, whether the backend can be reached or not.
NonRunInitNoOp ==
    [][\A i \in InitCalls :
          (initMode[i] = "none" /\ initMode'[i] # "none" /\ initMode'[i] # "ModeRun") =>
              /\ pc'[<<"Init", i>>] = "returned"
              /\ ret'[<<"Init", i>>] = "nil"
              /\ initRet'[<<"Init", i>>] = "none"
              /\ UNCHANGED <<mgr, bg, reg>>]_vars

\* An Init outside run mode has returned nil on a manager whose one attempt
\* to open the store had failed.
NonRunInitNoOpWitness ==
    \E i \in InitCalls, c \in Callers :
        /\ initMode[i] = "ModeOther"
        /\ ret[<<"Init", i>>] = "nil"
        /\ initRet[c] = "errAccess"
        /\ opens = 1
        /\ store = "nil"
\* C12: the key is <namespace>-<sourceName> for an empty id and
\* <namespace>-[<id>]-<sourceName> otherwise; tasks with the same id and
\* source name use one key, tasks that differ in id or name use different
\* keys, and the registry holds keys of this form only.
KeyFormat ==
    /\ Key("filestream", "", "/var/log/a.log") = "filestream-/var/log/a.log"
    /\ Key("filestream", "custom", "/var/log/a.log") = "filestream-[custom]-/var/log/a.log"
    /\ DOMAIN table \subseteq {"t-a", "t-b", "t-[x]-a", "t-[x]-b"}
    /\ \A t \in Tasks, u \in Tasks :
          (tpc[t] # "idle" /\ tpc[u] # "idle") =>
              ((createSourceID(t) = createSourceID(u))
                  <=> (/\ inputs[t[1]].ID = inputs[u[1]].ID
                       /\ inputs[t[1]].sources[t[2]] = inputs[u[1]].sources[u[2]]))

\* Two inputs that differ only in id hold the lock of the same source name
\* at once, each on its own entry.
KeyFormatWitness ==
    \E t \in Tasks, u \in Tasks :
        /\ tpc[t] = "holding"
        /\ tpc[u] = "holding"
        /\ inputs[t[1]].ID = ""
        /\ inputs[u[1]].ID = "x"
        /\ t[2] = u[2]
        /\ createSourceID(t) = "t-a"
        /\ createSourceID(u) = "t-[x]-a"
        /\ {"t-a", "t-[x]-a"} \subseteq DOMAIN table
\* C13: a release, also the one that brings the count to zero, leaves the
\* entry in the registry with its cursor, and a get of an existing entry
\* returns the cursor that was written.
CursorSurvivesRelease ==
    [][\A k \in DOMAIN table :
          LET released == \E t \in Tasks :
                              /\ tpc[t] \in {"errRelease", "unlocked"}
                              /\ tpc'[t] \in {"failed", "done"}
                              /\ createSourceID(t) = k
              got == \E t \in Tasks :
                         /\ tpc[t] = "idle"
                         /\ tpc'[t] = "got"
                         /\ createSourceID(t) = k
          IN (released \/ got) =>
                 /\ k \in DOMAIN table'
                 /\ table'[k].cursor = table[k].cursor]_vars

\* One task wrote the cursor and released the entry; another task's get of
\* the same key has the written cursor before it.
CursorSurvivesReleaseWitness ==
    \E t \in Tasks, u \in Tasks :
        /\ SameKey(t, u)
        /\ tpc[t] = "done"
        /\ tpc[u] = "got"
        /\ createSourceID(t) \in DOMAIN table
        /\ table[createSourceID(t)].pending = 1
        /\ table[createSourceID(t)].cursor \in Cursors
\* C14: at most one Cleaner task runs for the manager at any instant.
SingleCleaner == Cardinality({i \in InitCalls : cleaner[i] = "run"}) <= 1

\* C16: the reference count of every entry is the number of lock calls
\* that have done their get and not yet released it (before TryLock,
\* waiting, about to release after cancellation, holding, unlocked), and is
\* never negative.
RefCountAccuracy ==
    \A k \in DOMAIN table :
        /\ table[k].pending >= 0
        /\ table[k].pending = Cardinality(Using(k))

\* Two references on one entry: the holder's, and that of a cancelled
\* waiter that has not released yet.
RefCountAccuracyWitness ==
    \E t \in Tasks, u \in Tasks :
        /\ SameKey(t, u)
        /\ tpc[t] = "holding"
        /\ tpc[u] = "errRelease"
        /\ table[createSourceID(t)].pending = 2

\* C19: an entry whose lock is held has a reference count of at least 1,
\* and so has the entry of every task between lock and the end of
\* releaseResource's Unlock.
LockImpliesReference ==
    /\ \A k \in DOMAIN table : table[k].lock = 1 => table[k].pending >= 1
    /\ \A t \in Tasks :
          tpc[t] = "holding" =>
              /\ createSourceID(t) \in DOMAIN table
              /\ table[createSourceID(t)].lock = 1
              /\ table[createSourceID(t)].pending >= 1

\* A lock held on an entry whose only reference is the holder's, the other
\* task of the key having released its own.
LockImpliesReferenceWitness ==
    \E t \in Tasks, u \in Tasks :
        /\ SameKey(t, u)
        /\ tpc[t] = "holding"
        /\ tpc[u] = "done"
        /\ table[createSourceID(t)].lock = 1
        /\ table[createSourceID(t)].pending = 1

\* C20: the store's count never drops below zero, and a store whose handle
\* was closed is not released again.
StoreRefBalance ==
    /\ [](storeRef >= 0)
    /\ [][store = "closed" => storeRef' >= storeRef]_vars
\* C17: the Cleaner task leaves its loop only with its scope cancelled (a
\* sweep that fails leaves it running); once the scope is cancelled the
\* task returns and its two deferred calls release the store once each.
CleanerLoopExit ==
    /\ [][\A i \in InitCalls :
             /\ (cleaner[i] = "run" /\ cleaner'[i] # "run") =>
                    (scope[i] = "done" /\ cleaner'[i] = "release")
             /\ (cleaner[i] = "release" /\ cleaner'[i] # "release") =>
                    (cleaner'[i] = "shutdown" /\ storeRef' = storeRef - 1)
             /\ (cleaner[i] = "shutdown" /\ cleaner'[i] # "shutdown") =>
                    (cleaner'[i] = "done" /\ storeRef' = storeRef - 1)]_vars
    /\ \A i \in InitCalls :
          (cleaner[i] = "run" /\ scope[i] = "done") ~> (cleaner[i] = "done")

\* A Cleaner has returned after its scope ended and the store is released,
\* leaving behind an entry it never removed.
CleanerLoopExitWitness ==
    \E i \in InitCalls :
        /\ cleaner[i] = "done"
        /\ scope[i] = "done"
        /\ storeRef = 0
        /\ store = "closed"
        /\ \E k \in DOMAIN table : Evictable(table[k])

\* C18: a lock call waiting on a contended key whose cancellation token has
\* fired returns, with the lock or with the error, whether the holder ever
\* releases or not.
BoundedWaiting ==
    \A t \in Tasks :
        (tpc[t] = "waiting" /\ canceled[t[1]]) ~> (tpc[t] \notin {"waiting", "errRelease"})

\* A cancelled waiter has returned while the holder, which was never
\* cancelled, still holds the lock.
BoundedWaitingWitness ==
    \E t \in Tasks, u \in Tasks :
        /\ SameKey(t, u)
        /\ tpc[t] = "failed"
        /\ canceled[t[1]]
        /\ tpc[u] = "holding"
        /\ ~canceled[u[1]]
====
